---- MODULE Spec2Model ----
(***************************************************************************)
(* Write-behind session store (custom_session_service.py), its background  *)
(* task registries (custom_session_service.py, fast_session_service.py,    *)
(* async_session_wrapper.py) and the in-memory broadcast hub with its SSE  *)
(* stream adapters (inbox_router.py).                                      *)
(***************************************************************************)
EXTENDS Integers, Sequences, FiniteSets, TLC

\* ------------------------------------------------------------------ bounds
MaxTasks == 2
MaxGets == 1
MaxAdapters == 2
MaxMsgs == 2
MaxKeepalives == 1
MaxStreams == 1
MaxOps == 2
MaxTurns == 2

\* ------------------------------------------------------------- value sets
SessionIds == {"s1"}

\* State maps, as sets of <<key, value>> pairs; {} is the empty dict.
StateMaps == {{}, {<<"is_read", TRUE>>}}

\* The (events, state) pairs a caller hands to save_session_async.
SavePayloads ==
    {[events |-> <<1>>, state |-> {}],
     [events |-> <<1, 2>>, state |-> {<<"is_read", TRUE>>}]}

\* The optional `state` argument of create_session: None or a dict.
NoneArg == [some |-> FALSE, map |-> {}]
StateArgs == {NoneArg} \cup {[some |-> TRUE, map |-> m] : m \in StateMaps}

\* Python's `state or {}`: None and the empty dict both give {}.
OrEmpty(arg) == IF arg.some /\ arg.map # {} THEN arg.map ELSE {}

\* json.dumps / json.loads on the events and state columns.
JsonDumps(v) == <<"json", v>>
JsonLoads(s) == s[2]

None == [kind |-> "none"]

\* The dict save_session_async and create_session build (updated_at left out).
SessionData(id, events, state) ==
    [kind |-> "session", session_id |-> id, events |-> events, state |-> state]

VARIABLES
    memory_cache,   \* self._memory_cache: a dict, session id -> cached value
    write_tasks,    \* CustomAsyncSessionService._write_tasks: task handles
    write_queue,    \* FastSessionService._write_queue: task handles
    pending_writes, \* AsyncSessionServiceWrapper._pending_writes: task handles
    sessions,       \* the durable `sessions` table: a set of rows
    task,           \* every background task created so far, by handle
    getter,         \* the get_session calls in progress, each with its position
    returned,       \* what the get_session call that returned in this step returned
    landed,         \* history: per id, the handle whose upsert committed last
    listeners,      \* inbox_router._listeners: a dict, conversation id -> list of queues
    global_listeners, \* inbox_router._global_listeners: a list of queues
    queue,          \* the items waiting in each stream adapter's asyncio.Queue
    adapter,        \* each stream adapter (event_generator): its position and topic
    forwarded,      \* the items each adapter has taken from its queue and sent on
    broken,         \* the queues whose put raises
    pub,            \* the broadcast call in progress: its position and locals
    nextMsg,        \* the number of the next broadcast call
    subs,           \* history: per broadcast, its arguments, the item it put and the
                    \* queues registered when it was called
    pub_raised,     \* history: a broadcast call raised to its caller
    sent,           \* the chunks each adapter has yielded to its client, in order
    pre_ack,        \* history: the items in an adapter's queue when it yielded "connected"
    handler,        \* the inbox request being handled: its position and arguments
    adk,            \* the ADK session service's sessions: events appended, state
    oplog,          \* history: per handled request, what it stored and published
    turns,          \* the agent turns so far, the last one possibly still running
    notifier        \* the _send_webhook_to_inbox tasks created so far, by number

storevars == <<memory_cache, write_tasks, write_queue, pending_writes, sessions, task, getter, returned, landed>>

\* What only the agent's callbacks and their notifier tasks change.
agentvars == <<turns, notifier>>

\* What only the inbox request handlers and the agent change.
opvars == <<handler, adk, oplog, agentvars>>

\* The hub and its adapters.
hubcore == <<listeners, global_listeners, queue, adapter, forwarded, broken, pub, nextMsg, subs, pub_raised, sent, pre_ack>>

hubvars == <<listeners, global_listeners, queue, adapter, forwarded, broken, pub, nextMsg, subs, pub_raised, sent, pre_ack, opvars>>

vars == <<storevars, hubvars>>

Getters == 1..MaxGets

\* A get_session call that is not running.
Idle == [pc |-> "idle", id |-> "", row |-> None]

\* A get_session(id) call returned value in this step.
Return(id, value) == [id |-> id, value |-> value]

\* No get_session call returned in this step.
NoReturn == Return("", None)

\* Task.done(): the coroutine has returned (its exception was swallowed).
Done(t) == task[t].status \in {"completed", "failed"}

\* dict assignment d[k] = v
DictPut(d, k, v) == [x \in DOMAIN d \cup {k} |-> IF x = k THEN v ELSE d[x]]

\* The clean-up left out: every handle is kept.
PruneNothing(reg, tk) == reg

\* A clean-up that keeps the newest handle only.
PruneAllButNewest(reg, tk) == <<reg[Len(reg)]>>

\* [t for t in tasks if not t.done()], with the tasks as they are in tk
Prune(reg, tk) ==
    LET NotDone(h) == tk[h].status \notin {"completed", "failed"}
    IN  SelectSeq(reg, NotDone)

\* asyncio.create_task(...): a new handle, not yet started.
NewTask(svc, kind, data) ==
    Append(task, [svc |-> svc, kind |-> kind, data |-> data, status |-> "scheduled"])

\* Upsert with ON CONFLICT (id) DO NOTHING: an existing row is kept as it is.
UpsertDoNothing(table, data) ==
    IF \E r \in table : r.id = data.session_id
    THEN table
    ELSE table \cup {[id |-> data.session_id,
                      events |-> <<"json", data.events>>,
                      state |-> <<"json", data.state>>]}

\* A plain INSERT with no conflict target: the new row is added beside the old.
UpsertAppend(table, data) ==
    table \cup {[id |-> data.session_id,
                 events |-> <<"json", data.events>>,
                 state |-> <<"json", data.state>>]}

\* An upsert whose conflict branch replaces the events and keeps the state.
UpsertEventsOnly(table, data) ==
    IF \E r \in table : r.id = data.session_id
    THEN {IF r.id = data.session_id
          THEN [r EXCEPT !.events = <<"json", data.events>>]
          ELSE r : r \in table}
    ELSE table \cup {[id |-> data.session_id,
                      events |-> <<"json", data.events>>,
                      state |-> <<"json", data.state>>]}

\* INSERT INTO sessions ... ON CONFLICT (id) DO UPDATE SET events, state
Upsert(table, data) ==
    IF \E r \in table : r.id = data.session_id
    THEN {IF r.id = data.session_id
          THEN [r EXCEPT !.events = JsonDumps(data.events),
                         !.state = JsonDumps(data.state)]
          ELSE r : r \in table}
    ELSE table \cup {[id |-> data.session_id,
                      events |-> JsonDumps(data.events),
                      state |-> JsonDumps(data.state)]}

\* ------------------------------------------------------------ the hub

\* The conversation ids clients listen on, and the topics with the global one.
Conversations == {"c1"}
Topics == Conversations \cup {"global"}

\* The stream adapters; an adapter's queue is known by the adapter's number.
Adapters == 1..MaxAdapters

\* No broadcast call is running.
NoBroadcast == [pc |-> "idle", topic |-> "", msg |-> 0, i |-> 0, dead |-> <<>>]

\* The list of queues registered under a topic ([] for an unknown conversation).
ListOf(topic) ==
    IF topic = "global" THEN global_listeners
    ELSE IF topic \in DOMAIN listeners THEN listeners[topic] ELSE <<>>

\* list.remove(q): the first occurrence goes.
Remove(list, q) ==
    LET k == CHOOSE i \in 1..Len(list) : list[i] = q /\ \A j \in 1..(i - 1) : list[j] # q
    IN  SubSeq(list, 1, k - 1) \o SubSeq(list, k + 1, Len(list))

\* The members of a list.
Elems(list) == {list[i] : i \in 1..Len(list)}

\* q in list
In(q, list) == \E i \in 1..Len(list) : list[i] = q

\* The chunks an adapter yields: the "connected" acknowledgment, the keepalive
\* comment line, and f"data: {json.dumps(item)}" for the item of broadcast m.
Connected(topic) == [kind |-> "connected", conversation_id |-> topic]
Keepalive == [kind |-> "keepalive"]
DataChunk(m) == [kind |-> "data", body |-> JsonDumps(subs[m].item)]

\* The message_data dicts the request handlers hand to broadcast_to_clients.
NewMessage == [type |-> "new_message", author |-> "human_agent"]
AiStatusChanged(enabled) ==
    [type |-> "ai_status_changed", ai_enabled |-> enabled, ai_paused |-> ~enabled]

\* The event types and the data dict the callers hand to broadcast_global.
SidebarEvents == {"new_conversation", "conversation_update"}
SidebarData(cid) == [conversation_id |-> cid, platform |-> "webchat"]

\* event_data = {"type": event_type, **data, "timestamp": <now>}: a key of data
\* replaces the one before it, the timestamp replaces a key of data.
EventData(event_type, data) ==
    [k \in {"type"} \cup DOMAIN data \cup {"timestamp"} |->
        IF k = "timestamp" THEN "now"
        ELSE IF k \in DOMAIN data THEN data[k] ELSE event_type]

\* A broadcast call that returned at once built no item.
NoItem == [type |-> "none"]

\* No inbox request is being handled.
NoRequest == [pc |-> "idle", op |-> "", cid |-> "", enabled |-> FALSE]

\* The operations of the inbox that change a conversation.
Operations == {"send_message", "mark_as_read", "mark_as_unread", "toggle_ai"}

\* The state_delta of the event a handler appends; toggle_ai records when and
\* why the AI was paused and sets the reason to None when it is enabled again.
StateDelta(op, enabled) ==
    CASE op = "send_message" -> {}
      [] op = "mark_as_read" -> {<<"is_read", TRUE>>}
      [] op = "mark_as_unread" -> {<<"is_read", FALSE>>}
      [] op = "toggle_ai" ->
            IF enabled
            THEN {<<"ai_paused", FALSE>>, <<"escalation_reason", "None">>}
            ELSE {<<"ai_paused", TRUE>>, <<"escalation_time", "now">>,
                  <<"escalation_reason", "Human agent takeover">>}

\* append_event on a session: one more event, the delta's keys replaced.
AppendEvent(session, delta) ==
    [events |-> session.events + 1,
     state |-> {kv \in session.state : \A d \in delta : d[1] # kv[1]} \cup delta]

\* The tables a previous run of the process may have left behind.
InitialTables ==
    {{}, {[id |-> "s1", events |-> JsonDumps(<<1>>), state |-> JsonDumps({})]}}

Init ==
    /\ memory_cache = <<>>
    /\ write_tasks = <<>>
    /\ write_queue = <<>>
    /\ pending_writes = <<>>
    /\ sessions \in InitialTables
    /\ task = <<>>
    /\ getter = [g \in Getters |-> Idle]
    /\ returned = NoReturn
    /\ landed = [id \in SessionIds |-> 0]
    /\ listeners = <<>>
    /\ global_listeners = <<>>
    /\ queue = [a \in Adapters |-> <<>>]
    /\ adapter = [a \in Adapters |-> [state |-> "NEW", topic |-> "", unsub |-> ""]]
    /\ forwarded = [a \in Adapters |-> <<>>]
    /\ broken = {}
    /\ pub = NoBroadcast
    /\ nextMsg = 1
    /\ subs = <<>>
    /\ pub_raised = FALSE
    /\ sent = [a \in Adapters |-> <<>>]
    /\ pre_ack = [a \in Adapters |-> <<>>]
    /\ handler = NoRequest
    /\ adk = [cid \in Conversations |-> [events |-> 0, state |-> {}]]
    /\ oplog = <<>>
    /\ turns = <<>>
    /\ notifier = <<>>

\* save_session_async: cache first, then create the task, append, prune.
SaveSessionAsync(id, events, state) ==
    /\ Len(task) < MaxTasks
    /\ memory_cache' = DictPut(memory_cache, id, SessionData(id, events, state))
    /\ task' = NewTask("custom", "upsert", SessionData(id, events, state))
    /\ write_tasks' = Prune(Append(write_tasks, Len(task) + 1), task')
    /\ returned' = NoReturn
    /\ UNCHANGED <<write_queue, pending_writes, sessions, getter, landed>>
    /\ UNCHANGED hubvars

Save == \E id \in SessionIds, p \in SavePayloads : SaveSessionAsync(id, p.events, p.state)

\* A create_session that drops the state it was given.
CreateSessionEmptyState(id, arg) == SaveSessionAsync(id, <<>>, {})

\* create_session: caches the new record, then calls save_session_async with
\* the same id, [] and `state or {}` (no await in between).
CreateSession(id, arg) == SaveSessionAsync(id, <<>>, OrEmpty(arg))

Create == \E id \in SessionIds, arg \in StateArgs : CreateSession(id, arg)

\* Writes run one after the other: a task starts once those before it are done.
WriteBeginInOrder(t) ==
    /\ task[t].status = "scheduled"
    /\ \A u \in 1..(t - 1) : Done(u)
    /\ task' = [task EXCEPT ![t].status = "running"]
    /\ returned' = NoReturn
    /\ UNCHANGED <<memory_cache, write_tasks, write_queue, pending_writes, sessions, getter, landed>>
    /\ UNCHANGED hubvars

\* _async_write_session: the task starts and sends the INSERT.
WriteBegin(t) ==
    /\ task[t].status = "scheduled"
    /\ task' = [task EXCEPT ![t].status = "running"]
    /\ returned' = NoReturn
    /\ UNCHANGED <<memory_cache, write_tasks, write_queue, pending_writes, sessions, getter, landed>>
    /\ UNCHANGED hubvars

\* _async_write_session: the commit lands; the task returns.
WriteCommit(t) ==
    /\ task[t].status = "running"
    /\ task[t].kind = "upsert"
    /\ sessions' = Upsert(sessions, task[t].data)
    /\ task' = [task EXCEPT ![t].status = "completed"]
    /\ landed' = [landed EXCEPT ![task[t].data.session_id] = t]
    /\ returned' = NoReturn
    /\ UNCHANGED <<memory_cache, write_tasks, write_queue, pending_writes, getter>>
    /\ UNCHANGED hubvars

\* A failure handler that schedules the write again.
WriteFailRetry(t) ==
    /\ task[t].status \in {"scheduled", "running"}
    /\ task' = Append([task EXCEPT ![t].status = "failed"],
                      [task[t] EXCEPT !.status = "scheduled"])
    /\ returned' = NoReturn
    /\ UNCHANGED <<memory_cache, write_tasks, write_queue, pending_writes, sessions, getter, landed>>
    /\ UNCHANGED hubvars

\* _async_write_session: any exception is logged and swallowed.
WriteFail(t) ==
    /\ task[t].status \in {"scheduled", "running"}
    /\ task' = [task EXCEPT ![t].status = "failed"]
    /\ returned' = NoReturn
    /\ UNCHANGED <<memory_cache, write_tasks, write_queue, pending_writes, sessions, getter, landed>>
    /\ UNCHANGED hubvars

\* The argument of a background call that is handed on to the ADK service.
Delegated(id) == [kind |-> "delegated", session_id |-> id]

\* FastSessionService.update_session_events: create the task, append, prune.
UpdateSessionEvents(id) ==
    /\ Len(task) < MaxTasks
    /\ task' = NewTask("fast", "events", Delegated(id))
    /\ write_queue' = Prune(Append(write_queue, Len(task) + 1), task')
    /\ returned' = NoReturn
    /\ UNCHANGED <<memory_cache, write_tasks, pending_writes, sessions, getter, landed>>
    /\ UNCHANGED hubvars

\* FastSessionService.update_session_state: create the task, append, prune.
UpdateSessionState(id) ==
    /\ Len(task) < MaxTasks
    /\ task' = NewTask("fast", "state", Delegated(id))
    /\ write_queue' = Prune(Append(write_queue, Len(task) + 1), task')
    /\ returned' = NoReturn
    /\ UNCHANGED <<memory_cache, write_tasks, pending_writes, sessions, getter, landed>>
    /\ UNCHANGED hubvars

\* AsyncSessionServiceWrapper.update_session: create the task, append, prune.
UpdateSession(id) ==
    /\ Len(task) < MaxTasks
    /\ task' = NewTask("wrapper", "update", Delegated(id))
    /\ pending_writes' = Prune(Append(pending_writes, Len(task) + 1), task')
    /\ returned' = NoReturn
    /\ UNCHANGED <<memory_cache, write_tasks, write_queue, sessions, getter, landed>>
    /\ UNCHANGED hubvars

\* AsyncSessionServiceWrapper.delete_session: create the task and append it;
\* this call does not prune.
DeleteSession(id) ==
    /\ Len(task) < MaxTasks
    /\ task' = NewTask("wrapper", "delete", Delegated(id))
    /\ pending_writes' = Append(pending_writes, Len(task) + 1)
    /\ returned' = NoReturn
    /\ UNCHANGED <<memory_cache, write_tasks, write_queue, sessions, getter, landed>>
    /\ UNCHANGED hubvars

\* _async_update_events, _async_update_state, _async_update_session and the
\* delete coroutine: the awaited ADK call returns; the task is done.
DelegateDone(t) ==
    /\ task[t].status = "running"
    /\ task[t].kind # "upsert"
    /\ task' = [task EXCEPT ![t].status = "completed"]
    /\ returned' = NoReturn
    /\ UNCHANGED <<memory_cache, write_tasks, write_queue, pending_writes, sessions, getter, landed>>
    /\ UNCHANGED hubvars

\* get_session, up to its first suspension: a cache hit returns at once,
\* a miss goes to the database.
GetStart(g, id) ==
    /\ getter[g].pc = "idle"
    /\ \A h \in Getters : h < g => getter[h].pc # "idle"
    /\ IF id \in DOMAIN memory_cache
       THEN /\ returned' = Return(id, memory_cache[id])
            /\ UNCHANGED getter
       ELSE /\ getter' = [getter EXCEPT ![g] = [pc |-> "reading", id |-> id, row |-> None]]
            /\ returned' = NoReturn
    /\ UNCHANGED <<memory_cache, write_tasks, write_queue, pending_writes, sessions, task, landed>>
    /\ UNCHANGED hubvars

\* The SELECT events, state ... WHERE id = :session_id LIMIT 1 runs at the
\* database; result.first() is a row or None.
GetRead(g) ==
    /\ getter[g].pc = "reading"
    /\ \/ \E r \in {x \in sessions : x.id = getter[g].id} :
            getter' = [getter EXCEPT ![g].pc = "fetched",
                                     ![g].row = [kind |-> "row", events |-> r.events, state |-> r.state]]
       \/ /\ ~\E x \in sessions : x.id = getter[g].id
          /\ getter' = [getter EXCEPT ![g].pc = "fetched", ![g].row = None]
    /\ returned' = NoReturn
    /\ UNCHANGED <<memory_cache, write_tasks, write_queue, pending_writes, sessions, task, landed>>
    /\ UNCHANGED hubvars

\* What get_session makes of a row: json.loads of column 0 (events).
RowData(row) == [kind |-> "events", events |-> JsonLoads(row.events)]

\* get_session resumes with the row: it is decoded, cached and returned;
\* no row returns None.
GetResume(g) ==
    /\ getter[g].pc = "fetched"
    /\ IF getter[g].row # None
       THEN /\ memory_cache' = DictPut(memory_cache, getter[g].id, RowData(getter[g].row))
            /\ returned' = Return(getter[g].id, RowData(getter[g].row))
       ELSE /\ returned' = Return(getter[g].id, None)
            /\ UNCHANGED memory_cache
    /\ getter' = [getter EXCEPT ![g] = Idle]
    /\ UNCHANGED <<write_tasks, write_queue, pending_writes, sessions, task, landed>>
    /\ UNCHANGED hubvars

\* get_session: the read raises; the error is logged and None returned.
GetReadError(g) ==
    /\ getter[g].pc = "reading"
    /\ getter' = [getter EXCEPT ![g] = Idle]
    /\ returned' = Return(getter[g].id, None)
    /\ UNCHANGED <<memory_cache, write_tasks, write_queue, pending_writes, sessions, task, landed>>
    /\ UNCHANGED hubvars

Next ==
    \/ Save
    \/ Create
    \/ \E t \in DOMAIN task : WriteBegin(t)
    \/ \E t \in DOMAIN task : WriteCommit(t)
    \/ \E t \in DOMAIN task : WriteFail(t)
    \/ \E g \in Getters, id \in SessionIds : GetStart(g, id)
    \/ \E g \in Getters : GetRead(g)
    \/ \E g \in Getters : GetResume(g)
    \/ \E g \in Getters : GetReadError(g)

Spec == Init /\ [][Next]_vars

\* wrapped_stream, after the last chunk of a turn: the events collected from
\* this turn's chunks (new events, numbered by the turn) are saved with
\* state={}; a turn without events saves nothing.
RunSseSave(id) == SaveSessionAsync(id, <<Len(task) + 1>>, {})

\* The store as the middleware drives it: sessions are created, every streamed
\* turn ends with a save, sessions are read.
TurnNext ==
    \/ Create
    \/ \E id \in SessionIds : RunSseSave(id)
    \/ \E t \in DOMAIN task : WriteBegin(t)
    \/ \E t \in DOMAIN task : WriteCommit(t)
    \/ \E t \in DOMAIN task : WriteFail(t)
    \/ \E g \in Getters, id \in SessionIds : GetStart(g, id)
    \/ \E g \in Getters : GetRead(g)
    \/ \E g \in Getters : GetResume(g)
    \/ \E g \in Getters : GetReadError(g)

TurnSpec == Init /\ [][TurnNext]_vars

\* The three services' schedule calls and their background tasks.
RegistryNext ==
    \/ Save
    \/ Create
    \/ \E id \in SessionIds : UpdateSessionEvents(id)
    \/ \E id \in SessionIds : UpdateSessionState(id)
    \/ \E id \in SessionIds : UpdateSession(id)
    \/ \E id \in SessionIds : DeleteSession(id)
    \/ \E t \in DOMAIN task : WriteBegin(t)
    \/ \E t \in DOMAIN task : WriteCommit(t)
    \/ \E t \in DOMAIN task : DelegateDone(t)
    \/ \E t \in DOMAIN task : WriteFail(t)

RegistrySpec == Init /\ [][RegistryNext]_vars

\* The same under a fair event loop: a task that was created is started, and
\* a task does not stay suspended for ever (its statement commits or fails,
\* its delegated call returns or fails).
RegistryFairSpec ==
    /\ RegistrySpec
    /\ \A t \in 1..MaxTasks :
          /\ WF_vars(t \in DOMAIN task /\ WriteBegin(t))
          /\ WF_vars(t \in DOMAIN task /\ (WriteCommit(t) \/ DelegateDone(t) \/ WriteFail(t)))

\* A session's life on the services together: saved on the store with the
\* cache, deleted through the wrapper, read back from the store.
LifecycleNext ==
    \/ Save
    \/ \E id \in SessionIds : UpdateSession(id)
    \/ \E id \in SessionIds : DeleteSession(id)
    \/ \E t \in DOMAIN task : WriteBegin(t)
    \/ \E t \in DOMAIN task : WriteCommit(t)
    \/ \E t \in DOMAIN task : DelegateDone(t)
    \/ \E t \in DOMAIN task : WriteFail(t)
    \/ \E g \in Getters, id \in SessionIds : GetStart(g, id)
    \/ \E g \in Getters : GetRead(g)
    \/ \E g \in Getters : GetResume(g)

LifecycleSpec == Init /\ [][LifecycleNext]_vars

\* ----------------------------------------------------- the hub's operations

\* The list of a topic becomes list (the list object is changed in place).
SetList(topic, list) ==
    IF topic = "global"
    THEN global_listeners' = list /\ UNCHANGED listeners
    ELSE listeners' = DictPut(listeners, topic, list) /\ UNCHANGED global_listeners

\* A registration that replays the latest broadcast to the new queue.
ConnectReplay(a, topic) ==
    /\ adapter[a].state = "NEW"
    /\ \A b \in Adapters : b < a => adapter[b].state # "NEW"
    /\ queue' = [queue EXCEPT ![a] = IF nextMsg > 1 THEN <<nextMsg - 1>> ELSE <<>>]
    /\ SetList(topic, Append(ListOf(topic), a))
    /\ adapter' = [adapter EXCEPT ![a] = [state |-> "STREAMING", topic |-> topic, unsub |-> ""]]
    /\ sent' = [sent EXCEPT ![a] = <<Connected(topic)>>]
    /\ UNCHANGED <<forwarded, broken, pub, nextMsg, subs, pub_raised, pre_ack, opvars>>
    /\ UNCHANGED storevars

\* event_generator up to its first yield: a new queue is registered under the
\* topic (the conversation's list is created if missing) and the "connected"
\* acknowledgment is yielded.
Connect(a, topic) ==
    /\ adapter[a].state = "NEW"
    /\ \A b \in Adapters : b < a => adapter[b].state # "NEW"
    /\ queue' = [queue EXCEPT ![a] = <<>>]
    /\ SetList(topic, Append(ListOf(topic), a))
    /\ adapter' = [adapter EXCEPT ![a] = [state |-> "STREAMING", topic |-> topic, unsub |-> ""]]
    /\ sent' = [sent EXCEPT ![a] = <<Connected(topic)>>]
    /\ UNCHANGED <<forwarded, broken, pub, nextMsg, subs, pub_raised, pre_ack, opvars>>
    /\ UNCHANGED storevars

\* An unsubscribe that drops the topic's whole list.
CleanupDropTopic(a) == SetList(adapter[a].topic, <<>>)

\* The finally block left out: the queue stays registered.
CleanupMissing(a) == UNCHANGED <<listeners, global_listeners>>

\* The finally block: the queue is removed if it is still in its topic's list.
Cleanup(a) ==
    IF In(a, ListOf(adapter[a].topic))
    THEN SetList(adapter[a].topic, Remove(ListOf(adapter[a].topic), a))
    ELSE UNCHANGED <<listeners, global_listeners>>

\* The generator ends: finally runs (unsub notes which branch it took), then
\* the queue and the locals are gone.
Close(a) ==
    /\ Cleanup(a)
    /\ adapter' = [adapter EXCEPT ![a].state = "CLOSED",
                                  ![a].unsub = IF In(a, ListOf(adapter[a].topic))
                                               THEN "removed" ELSE "absent"]
    /\ queue' = [queue EXCEPT ![a] = <<>>]
    /\ forwarded' = [forwarded EXCEPT ![a] = <<>>]
    /\ sent' = [sent EXCEPT ![a] = <<>>]
    /\ pre_ack' = [pre_ack EXCEPT ![a] = <<>>]
    /\ UNCHANGED <<broken, pub, nextMsg, subs, pub_raised, opvars>>
    /\ UNCHANGED storevars

\* The client closes the stream: GeneratorExit at a yield.
ClientDisconnect(a) ==
    /\ adapter[a].state = "STREAMING"
    /\ Close(a)

\* The server cancels the stream: CancelledError at the await, caught, then finally.
ServerCancel(a) ==
    /\ adapter[a].state = "STREAMING"
    /\ Close(a)

\* json.dumps of an item taken from the queue raises: finally runs on the way out.
SerializationError(a) ==
    /\ adapter[a].state = "STREAMING"
    /\ queue[a] # <<>>
    /\ Close(a)

\* An item arrives within the timeout: it is serialized and yielded.
Forward(a) ==
    /\ adapter[a].state = "STREAMING"
    /\ queue[a] # <<>>
    /\ queue' = [queue EXCEPT ![a] = Tail(queue[a])]
    /\ forwarded' = [forwarded EXCEPT ![a] = Append(forwarded[a], Head(queue[a]))]
    /\ sent' = [sent EXCEPT ![a] = Append(sent[a], DataChunk(Head(queue[a])))]
    /\ UNCHANGED <<listeners, global_listeners, adapter, broken, pub, nextMsg, subs, pub_raised, pre_ack, opvars>>
    /\ UNCHANGED storevars

\* event_generator up to its registration: a new queue is appended to the
\* topic's list (the conversation's list is created if missing). The
\* acknowledgment follows as a step of its own. At most MaxStreams clients
\* are followed chunk by chunk.
Register(a, topic) ==
    /\ adapter[a].state = "NEW"
    /\ a <= MaxStreams
    /\ \A b \in Adapters : b < a => adapter[b].state # "NEW"
    /\ queue' = [queue EXCEPT ![a] = <<>>]
    /\ SetList(topic, Append(ListOf(topic), a))
    /\ adapter' = [adapter EXCEPT ![a] = [state |-> "CONNECTING", topic |-> topic, unsub |-> ""]]
    /\ UNCHANGED <<forwarded, broken, pub, nextMsg, subs, pub_raised, sent, pre_ack, opvars>>
    /\ UNCHANGED storevars

\* An acknowledgment that starts the stream with an empty queue.
AcknowledgeFlush(a) ==
    /\ adapter[a].state = "CONNECTING"
    /\ sent' = [sent EXCEPT ![a] = <<Connected(adapter[a].topic)>>]
    /\ pre_ack' = [pre_ack EXCEPT ![a] = queue[a]]
    /\ queue' = [queue EXCEPT ![a] = <<>>]
    /\ adapter' = [adapter EXCEPT ![a].state = "STREAMING"]
    /\ UNCHANGED <<listeners, global_listeners, forwarded, broken, pub, nextMsg, subs, pub_raised, opvars>>
    /\ UNCHANGED storevars

\* The first yield: the "connected" acknowledgment goes to the client and the
\* generator enters its loop.
Acknowledge(a) ==
    /\ adapter[a].state = "CONNECTING"
    /\ sent' = [sent EXCEPT ![a] = <<Connected(adapter[a].topic)>>]
    /\ pre_ack' = [pre_ack EXCEPT ![a] = queue[a]]
    /\ adapter' = [adapter EXCEPT ![a].state = "STREAMING"]
    /\ UNCHANGED <<listeners, global_listeners, queue, forwarded, broken, pub, nextMsg, subs, pub_raised, opvars>>
    /\ UNCHANGED storevars

\* The keepalives an adapter has sent.
Keepalives(a) == Cardinality({i \in DOMAIN sent[a] : sent[a][i].kind = "keepalive"})

\* A timeout handler that gives the stream up.
TimeoutCloses(a) ==
    /\ adapter[a].state = "STREAMING"
    /\ queue[a] = <<>>
    /\ Keepalives(a) < MaxKeepalives
    /\ Close(a)

\* asyncio.wait_for(queue.get(), timeout=30.0) expires with the queue empty:
\* TimeoutError is caught, the keepalive line is yielded, the loop goes on.
Timeout(a) ==
    /\ adapter[a].state = "STREAMING"
    /\ queue[a] = <<>>
    /\ Keepalives(a) < MaxKeepalives
    /\ sent' = [sent EXCEPT ![a] = Append(sent[a], Keepalive)]
    /\ UNCHANGED <<listeners, global_listeners, queue, adapter, forwarded, broken, pub, nextMsg, subs, pub_raised, pre_ack, opvars>>
    /\ UNCHANGED storevars

\* A queue starts to reject items (its put raises from now on).
BreakQueue(a) ==
    /\ adapter[a].state = "STREAMING"
    /\ a \notin broken
    /\ broken' = broken \cup {a}
    /\ UNCHANGED <<listeners, global_listeners, queue, adapter, forwarded, pub, nextMsg, subs, pub_raised, sent, pre_ack, opvars>>
    /\ UNCHANGED storevars

\* broadcast_to_clients / broadcast_global up to the loop: with no queue under
\* the topic the call returns at once, before an item is built, else the pass
\* over the list begins.
Broadcast(topic, published, item) ==
    /\ pub.pc = "idle"
    /\ nextMsg' = nextMsg + 1
    /\ subs' = Append(subs, IF ListOf(topic) = <<>>
                            THEN [topic |-> topic, queues |-> {},
                                  published |-> NoItem, item |-> NoItem]
                            ELSE [topic |-> topic, queues |-> Elems(ListOf(topic)),
                                  published |-> published, item |-> item])
    /\ pub' = IF ListOf(topic) = <<>>
              THEN NoBroadcast
              ELSE [pc |-> "loop", topic |-> topic, msg |-> nextMsg, i |-> 0, dead |-> <<>>]
    /\ UNCHANGED <<listeners, global_listeners, queue, adapter, forwarded, broken, pub_raised, sent, pre_ack>>
    /\ UNCHANGED storevars

\* broadcast_to_clients(conversation_id, message_data): the dict is put as it is.
BroadcastToClientsWith(cid, message_data) ==
    Broadcast(cid, [type |-> message_data.type, data |-> message_data], message_data)

\* broadcast_global(event_type, data): the item is built from type and data.
BroadcastGlobalWith(event_type, data) ==
    Broadcast("global", [type |-> event_type, data |-> data], EventData(event_type, data))

\* A broadcast to a conversation's clients, whoever the caller.
BroadcastToClients(cid) ==
    /\ nextMsg <= MaxMsgs
    /\ BroadcastToClientsWith(cid, NewMessage)
    /\ UNCHANGED opvars

\* The agent's sidebar notification: new_conversation or conversation_update.
BroadcastGlobal ==
    /\ nextMsg <= MaxMsgs
    /\ \E event_type \in SidebarEvents, cid \in Conversations :
          BroadcastGlobalWith(event_type, SidebarData(cid))
    /\ UNCHANGED opvars

\* The delivery loop stepping over every second queue.
PutNextSkip ==
    /\ pub.pc = "loop"
    /\ pub.i < Len(ListOf(pub.topic))
    /\ pub' = [pub EXCEPT !.i = pub.i + 2]
    /\ queue' = [queue EXCEPT ![ListOf(pub.topic)[pub.i + 1]] = Append(@, pub.msg)]
    /\ UNCHANGED <<listeners, global_listeners, adapter, forwarded, broken, nextMsg, subs, pub_raised, sent, pre_ack, opvars>>
    /\ UNCHANGED storevars

\* The delivery loop putting every item twice.
PutNextTwice ==
    /\ pub.pc = "loop"
    /\ pub.i < Len(ListOf(pub.topic))
    /\ pub' = [pub EXCEPT !.i = pub.i + 1]
    /\ queue' = [queue EXCEPT ![ListOf(pub.topic)[pub.i + 1]] = @ \o <<pub.msg, pub.msg>>]
    /\ UNCHANGED <<listeners, global_listeners, adapter, forwarded, broken, nextMsg, subs, pub_raised, sent, pre_ack, opvars>>
    /\ UNCHANGED storevars

\* A delivery loop that gives the pass up at the first queue that rejects.
PutNextAbort ==
    /\ pub.pc = "loop"
    /\ pub.i < Len(ListOf(pub.topic))
    /\ LET q == ListOf(pub.topic)[pub.i + 1]
       IN  IF q \in broken
           THEN /\ pub' = [pub EXCEPT !.i = Len(ListOf(pub.topic)), !.dead = Append(pub.dead, q)]
                /\ UNCHANGED queue
           ELSE /\ pub' = [pub EXCEPT !.i = pub.i + 1]
                /\ queue' = [queue EXCEPT ![q] = Append(queue[q], pub.msg)]
    /\ UNCHANGED <<listeners, global_listeners, adapter, forwarded, broken, nextMsg, subs, pub_raised, sent, pre_ack, opvars>>
    /\ UNCHANGED storevars

\* A delivery loop that also puts the item into every other stream's queue.
PutNextEveryTopic ==
    /\ pub.pc = "loop"
    /\ pub.i < Len(ListOf(pub.topic))
    /\ pub' = [pub EXCEPT !.i = pub.i + 1]
    /\ queue' = [a \in Adapters |->
                    IF a = ListOf(pub.topic)[pub.i + 1] \/ adapter[a].state = "STREAMING"
                    THEN Append(queue[a], pub.msg) ELSE queue[a]]
    /\ UNCHANGED <<listeners, global_listeners, adapter, forwarded, broken, nextMsg, subs, pub_raised, sent, pre_ack, opvars>>
    /\ UNCHANGED storevars

\* A delivery loop over queues of one slot: the put waits while the slot is taken.
PutNextBounded ==
    /\ pub.pc = "loop"
    /\ pub.i < Len(ListOf(pub.topic))
    /\ queue[ListOf(pub.topic)[pub.i + 1]] = <<>>
    /\ pub' = [pub EXCEPT !.i = pub.i + 1]
    /\ queue' = [queue EXCEPT ![ListOf(pub.topic)[pub.i + 1]] = Append(@, pub.msg)]
    /\ UNCHANGED <<listeners, global_listeners, adapter, forwarded, broken, nextMsg, subs, pub_raised, sent, pre_ack, opvars>>
    /\ UNCHANGED storevars

\* One turn of `for queue in <list>: await queue.put(...)`: the list iterator
\* takes the item at its index in the list as it is now; a put that raises
\* records the queue in dead_queues.
PutNext ==
    /\ pub.pc = "loop"
    /\ pub.i < Len(ListOf(pub.topic))
    /\ LET q == ListOf(pub.topic)[pub.i + 1]
       IN  IF q \in broken
           THEN /\ pub' = [pub EXCEPT !.i = pub.i + 1, !.dead = Append(pub.dead, q)]
                /\ UNCHANGED queue
           ELSE /\ pub' = [pub EXCEPT !.i = pub.i + 1]
                /\ queue' = [queue EXCEPT ![q] = Append(queue[q], pub.msg)]
    /\ UNCHANGED <<listeners, global_listeners, adapter, forwarded, broken, nextMsg, subs, pub_raised, sent, pre_ack, opvars>>
    /\ UNCHANGED storevars

\* A race in which the waking getter is cancelled and its item lost.
PutNextRacingDrops ==
    /\ pub.pc = "loop"
    /\ pub.i < Len(ListOf(pub.topic))
    /\ LET q == ListOf(pub.topic)[pub.i + 1]
       IN  /\ q \notin broken
           /\ adapter[q].state = "STREAMING"
           /\ queue[q] = <<>>
           /\ Keepalives(q) < MaxKeepalives
           /\ pub' = [pub EXCEPT !.i = pub.i + 1]
           /\ sent' = [sent EXCEPT ![q] = Append(sent[q], Keepalive)]
    /\ UNCHANGED <<listeners, global_listeners, queue, adapter, forwarded, broken, nextMsg, subs, pub_raised, pre_ack, opvars>>
    /\ UNCHANGED storevars

\* A turn of the delivery loop whose put meets the expiry of the adapter's
\* wait: the adapter waits on its empty queue, the item is put and wakes the
\* getter, and the timer cancels the get before it has taken the item.
\* Queue.get leaves the item in the queue, wait_for raises TimeoutError, and
\* the generator yields the keepalive and waits again.
PutNextRacing ==
    /\ pub.pc = "loop"
    /\ pub.i < Len(ListOf(pub.topic))
    /\ LET q == ListOf(pub.topic)[pub.i + 1]
       IN  /\ q \notin broken
           /\ adapter[q].state = "STREAMING"
           /\ queue[q] = <<>>
           /\ Keepalives(q) < MaxKeepalives
           /\ pub' = [pub EXCEPT !.i = pub.i + 1]
           /\ queue' = [queue EXCEPT ![q] = Append(queue[q], pub.msg)]
           /\ sent' = [sent EXCEPT ![q] = Append(sent[q], Keepalive)]
    /\ UNCHANGED <<listeners, global_listeners, adapter, forwarded, broken, nextMsg, subs, pub_raised, pre_ack, opvars>>
    /\ UNCHANGED storevars

\* `for queue in dead_queues: <list>.remove(queue)`: a queue that is no longer
\* in the list makes remove raise ValueError, which ends the call.
RECURSIVE RemoveDead(_, _)
RemoveDead(list, dead) ==
    IF dead = <<>> THEN [list |-> list, raised |-> FALSE]
    ELSE IF ~In(Head(dead), list) THEN [list |-> list, raised |-> TRUE]
    ELSE RemoveDead(Remove(list, Head(dead)), Tail(dead))

\* The iterator is exhausted: the dead queues are removed and the call returns.
PubFinish ==
    /\ pub.pc = "loop"
    /\ pub.i >= Len(ListOf(pub.topic))
    /\ LET r == RemoveDead(ListOf(pub.topic), pub.dead)
       IN  /\ IF pub.dead = <<>>
              THEN UNCHANGED <<listeners, global_listeners>>
              ELSE SetList(pub.topic, r.list)
           /\ pub_raised' = (pub_raised \/ r.raised)
    /\ pub' = NoBroadcast
    /\ UNCHANGED <<queue, adapter, forwarded, broken, nextMsg, subs, sent, pre_ack, opvars>>
    /\ UNCHANGED storevars

\* The hub starts with the process; the durable table plays no part in it.
HubInit == Init /\ sessions = {}

\* The stream adapters' steps.
AdapterStep ==
    \/ \E a \in Adapters, t \in Topics : Connect(a, t)
    \/ \E a \in Adapters : ClientDisconnect(a)
    \/ \E a \in Adapters : ServerCancel(a)
    \/ \E a \in Adapters : SerializationError(a)
    \/ \E a \in Adapters : Forward(a)

\* The broadcast calls' steps.
BroadcastStep ==
    \/ \E cid \in Conversations : BroadcastToClients(cid)
    \/ BroadcastGlobal
    \/ PutNext
    \/ PubFinish

\* The hub on the asyncio loop: a put on an unbounded asyncio.Queue() neither
\* suspends nor raises, so a broadcast call runs from its start to its return
\* with no other coroutine in between.
HubNext ==
    \/ \E cid \in Conversations : BroadcastToClients(cid)
    \/ BroadcastGlobal
    \/ PutNext
    \/ PubFinish
    \/ \E a \in Adapters, t \in Topics : pub.pc = "idle" /\ Connect(a, t)
    \/ \E a \in Adapters : pub.pc = "idle" /\ ClientDisconnect(a)
    \/ \E a \in Adapters : pub.pc = "idle" /\ ServerCancel(a)
    \/ \E a \in Adapters : pub.pc = "idle" /\ SerializationError(a)
    \/ \E a \in Adapters : pub.pc = "idle" /\ Forward(a)

HubSpec == HubInit /\ [][HubNext]_vars

\* The hub with the event loop going on with a broadcast call that has begun;
\* nothing is assumed of the adapters or their clients.
HubLiveSpec == HubSpec /\ WF_vars(PutNext) /\ WF_vars(PubFinish)

\* The same, with queues that may reject an item.
HubFaultNext ==
    \/ HubNext
    \/ \E a \in Adapters : pub.pc = "idle" /\ BreakQueue(a)

HubFaultSpec == HubInit /\ [][HubFaultNext]_vars

\* The hub when `await queue.put(...)` is a suspension point (a bounded queue,
\* or a host that runs the handlers on threads): the adapters' steps and other
\* registrations interleave with the turns of the delivery loop.
HubRaceNext ==
    \/ BroadcastStep
    \/ AdapterStep
    \/ \E a \in Adapters : BreakQueue(a)

HubRaceSpec == HubInit /\ [][HubRaceNext]_vars

\* Two conversations with clients, and the topics with the global one.
TwoConversations == {"c1", "c2"}
IsolationTopics == TwoConversations \cup {"global"}

\* The hub with clients on two conversations and on the sidebar.
IsolationNext ==
    \/ \E cid \in TwoConversations : BroadcastToClients(cid)
    \/ BroadcastGlobal
    \/ PutNext
    \/ PubFinish
    \/ \E a \in Adapters, t \in IsolationTopics : pub.pc = "idle" /\ Connect(a, t)
    \/ \E a \in Adapters : pub.pc = "idle" /\ ClientDisconnect(a)
    \/ \E a \in Adapters : pub.pc = "idle" /\ Forward(a)

IsolationSpec == HubInit /\ [][IsolationNext]_vars

\* --------------------------------------------- the inbox request handlers

\* The operations that broadcast after they have stored.
Publishing == {"send_message", "toggle_ai"}

\* What a handler hands to broadcast_to_clients and to broadcast_global.
ClientMessage(op, enabled) ==
    IF op = "send_message" THEN NewMessage ELSE AiStatusChanged(enabled)
GlobalEventType(op) ==
    IF op = "send_message" THEN "conversation_update" ELSE "ai_status_change"

\* The entry of the request being handled, with one more broadcast noted.
Noted(m) == [oplog EXCEPT ![Len(oplog)].msgs = Append(@, m)]

\* POST /messages, /conversations/{id}/read, /conversations/{id}/unread or
\* /toggle-ai arrives with a valid key: the handler awaits get_session.
StartRequest(op, cid, enabled) ==
    /\ handler.pc = "idle"
    /\ Len(oplog) < MaxOps
    /\ op # "toggle_ai" => enabled
    /\ handler' = [pc |-> "get_session", op |-> op, cid |-> cid, enabled |-> enabled]
    /\ UNCHANGED <<adk, oplog, agentvars>>
    /\ UNCHANGED hubcore
    /\ UNCHANGED storevars

\* get_session returned no session (404), or it or append_event raised (500):
\* the request ends, nothing is stored or published.
RequestFails ==
    /\ handler.pc = "get_session"
    /\ handler' = NoRequest
    /\ oplog' = Append(oplog, [op |-> handler.op, cid |-> handler.cid, enabled |-> handler.enabled,
                               status |-> "failed", stored |-> FALSE, msgs |-> <<>>])
    /\ UNCHANGED <<adk, agentvars>>
    /\ UNCHANGED hubcore
    /\ UNCHANGED storevars

\* The session was found: the event with its state_delta is built and
\* append_event has stored it.
RequestAppend ==
    /\ handler.pc = "get_session"
    /\ adk' = [adk EXCEPT ![handler.cid] = AppendEvent(@, StateDelta(handler.op, handler.enabled))]
    /\ handler' = [handler EXCEPT !.pc = "appended"]
    /\ oplog' = Append(oplog, [op |-> handler.op, cid |-> handler.cid, enabled |-> handler.enabled,
                               status |-> "running", stored |-> TRUE, msgs |-> <<>>])
    /\ UNCHANGED agentvars
    /\ UNCHANGED hubcore
    /\ UNCHANGED storevars

\* A handler that notifies the sidebar before the conversation's clients.
RequestBroadcastGlobalFirst ==
    /\ handler.pc = "appended"
    /\ handler.op \in Publishing
    /\ BroadcastGlobalWith(GlobalEventType(handler.op), SidebarData(handler.cid))
    /\ handler' = [handler EXCEPT !.pc = "to_clients"]
    /\ oplog' = Noted(nextMsg)
    /\ UNCHANGED <<adk, agentvars>>

\* send_message and toggle_ai: await broadcast_to_clients(conversation_id, ...)
RequestBroadcastToClients ==
    /\ handler.pc = "appended"
    /\ handler.op \in Publishing
    /\ BroadcastToClientsWith(handler.cid, ClientMessage(handler.op, handler.enabled))
    /\ handler' = [handler EXCEPT !.pc = "to_clients"]
    /\ oplog' = Noted(nextMsg)
    /\ UNCHANGED <<adk, agentvars>>

\* send_message and toggle_ai: then await broadcast_global(...)
RequestBroadcastGlobal ==
    /\ handler.pc = "to_clients"
    /\ BroadcastGlobalWith(GlobalEventType(handler.op), SidebarData(handler.cid))
    /\ handler' = [handler EXCEPT !.pc = "to_global"]
    /\ oplog' = Noted(nextMsg)
    /\ UNCHANGED <<adk, agentvars>>

\* The handler returns its success body: after the two broadcasts for
\* send_message and toggle_ai, right after append_event for mark_as_read and
\* mark_as_unread.
RequestReturn ==
    /\ \/ handler.pc = "to_global" /\ pub.pc = "idle"
       \/ handler.pc = "appended" /\ handler.op \notin Publishing
    /\ handler' = NoRequest
    /\ oplog' = [oplog EXCEPT ![Len(oplog)].status = "success"]
    /\ UNCHANGED <<adk, agentvars>>
    /\ UNCHANGED hubcore
    /\ UNCHANGED storevars

\* The inbox: requests are handled one after the other while clients listen.
InboxNext ==
    \/ \E op \in Operations, cid \in Conversations, enabled \in BOOLEAN :
          (op \in Publishing => nextMsg + 1 <= MaxMsgs) /\ StartRequest(op, cid, enabled)
    \/ RequestFails
    \/ RequestAppend
    \/ RequestBroadcastToClients
    \/ RequestBroadcastGlobal
    \/ RequestReturn
    \/ PutNext
    \/ PubFinish
    \/ \E a \in Adapters, t \in Topics : pub.pc = "idle" /\ Connect(a, t)
    \/ \E a \in Adapters : pub.pc = "idle" /\ Forward(a)
    \/ \E a \in Adapters : pub.pc = "idle" /\ ClientDisconnect(a)

InboxSpec == HubInit /\ [][InboxNext]_vars

\* ------------------------------------------------------- the agent's turns

\* The text the agent answers with while a human agent has taken over.
AiPaused == "__AI_PAUSED__"

\* state.get('ai_paused', False)
StateGet(state, key, default) ==
    IF \E kv \in state : kv[1] = key
    THEN (CHOOSE kv \in state : kv[1] = key)[2]
    ELSE default

\* A _send_webhook_to_inbox task as asyncio.create_task leaves it.
Note(cid, sender_type, is_new) ==
    [conversation_id |-> cid, sender_type |-> sender_type, is_new_conversation |-> is_new,
     pc |-> "queued", msg |-> 0, reply |-> "none"]

\* A turn is running.
InTurn == turns # <<>> /\ turns[Len(turns)].reply = "pending"

\* A callback that lets the agent answer whatever the state says.
TurnBeginIgnoresPause(cid) ==
    /\ handler.pc \in {"idle", "get_session"}
    /\ ~InTurn
    /\ Len(turns) < MaxTurns
    /\ LET session == AppendEvent(adk[cid], {})
       IN  /\ adk' = [adk EXCEPT ![cid] = session]
           /\ notifier' = Append(notifier, Note(cid, "user", session.events <= 1))
           /\ turns' = Append(turns, [cid |-> cid, paused |-> FALSE, reply |-> "pending"])
    /\ UNCHANGED <<handler, oplog>>
    /\ UNCHANGED hubcore
    /\ UNCHANGED storevars

\* A turn up to the end of before_agent_callback: the runner has appended the
\* user's message to the session; the callback queues the notification of
\* that message (is_new = len(events) <= 1) and reads ai_paused from the
\* session state. A request handler runs from the return of append_event to
\* its own return without a suspension, so no turn begins in between.
TurnBegin(cid) ==
    /\ handler.pc \in {"idle", "get_session"}
    /\ ~InTurn
    /\ Len(turns) < MaxTurns
    /\ LET session == AppendEvent(adk[cid], {})
       IN  /\ adk' = [adk EXCEPT ![cid] = session]
           /\ notifier' = Append(notifier, Note(cid, "user", session.events <= 1))
           /\ turns' = Append(turns, [cid |-> cid,
                                      paused |-> StateGet(session.state, "ai_paused", FALSE),
                                      reply |-> "pending"])
    /\ UNCHANGED <<handler, oplog>>
    /\ UNCHANGED hubcore
    /\ UNCHANGED storevars

\* What after_agent_callback writes into the session state.
SidebarState(events) == {<<"message_count", events>>, <<"last_message_preview", "preview">>}

\* The rest of the turn. Paused: the callback's content, the marker, is the
\* answer and no bot notification is queued (the agent is not run; whether
\* after_agent_callback runs is the framework's choice, and if it does it
\* writes the sidebar state and returns at the marker). Not paused: the agent's
\* answer is appended, after_agent_callback writes the sidebar state and queues
\* the notification of the answer (is_new_conversation = len(events) <= 2).
TurnEnd ==
    /\ InTurn
    /\ LET cid == turns[Len(turns)].cid
           session == AppendEvent(adk[cid], {})
           after == AppendEvent(adk[cid], SidebarState(adk[cid].events + 1))
       IN  IF turns[Len(turns)].paused
           THEN /\ turns' = [turns EXCEPT ![Len(turns)].reply = AiPaused]
                /\ \E ran \in BOOLEAN :
                      adk' = [adk EXCEPT ![cid] = IF ran THEN after ELSE session]
                /\ UNCHANGED notifier
           ELSE /\ turns' = [turns EXCEPT ![Len(turns)].reply = "answer"]
                /\ adk' = [adk EXCEPT ![cid] = after]
                /\ notifier' = Append(notifier, Note(cid, "bot", after.events <= 2))
    /\ UNCHANGED <<handler, oplog>>
    /\ UNCHANGED hubcore
    /\ UNCHANGED storevars

\* Human takeover: the inbox's requests and the agent's turns on the sessions
\* they share. No client listens here, so every broadcast call returns at
\* once; the notifier tasks the turns queue are followed in NotifierSpec.
TakeoverNext ==
    \/ \E op \in Operations, cid \in Conversations, enabled \in BOOLEAN :
          StartRequest(op, cid, enabled)
    \/ RequestFails
    \/ RequestAppend
    \/ RequestBroadcastToClients
    \/ RequestBroadcastGlobal
    \/ RequestReturn
    \/ \E cid \in Conversations : TurnBegin(cid)
    \/ TurnEnd

TakeoverSpec == HubInit /\ [][TakeoverNext]_vars

\* --------------------------------------------------- the outbound notifier

\* How a POST to the inbox webhook ends: a 200 reply, another status, or an
\* exception of the client (unreachable, timed out after 5 seconds).
WebhookOutcomes == {"200", "non200", "error"}

\* The data dict _send_webhook_to_inbox hands to broadcast_global.
NotifierData(note) ==
    [conversation_id |-> note.conversation_id, is_new |-> note.is_new_conversation,
     platform |-> "webchat"]

\* The event type it chooses.
NotifierEventType(note) ==
    IF note.is_new_conversation THEN "new_conversation" ELSE "conversation_update"

\* A task that tries the webhook first and leaves the hub out.
NotifierPostEarly(n) ==
    /\ n \in DOMAIN notifier
    /\ notifier[n].pc = "queued"
    /\ notifier' = [notifier EXCEPT ![n].pc = "posting"]
    /\ UNCHANGED <<handler, adk, oplog, turns>>
    /\ UNCHANGED hubcore
    /\ UNCHANGED storevars

\* The task's first part: await broadcast_global(event_type, {...}) inside
\* try/except (BROADCAST_AVAILABLE is true once inbox_router is imported).
\* The event loop starts tasks in the order create_task queued them, and a
\* task reaches this call without a suspension.
NotifierBroadcast(n) ==
    /\ n \in DOMAIN notifier
    /\ notifier[n].pc = "queued"
    /\ \A m \in 1..(n - 1) : notifier[m].pc # "queued"
    /\ BroadcastGlobalWith(NotifierEventType(notifier[n]), NotifierData(notifier[n]))
    /\ notifier' = [notifier EXCEPT ![n].pc = "broadcast", ![n].msg = nextMsg]
    /\ UNCHANGED <<handler, adk, oplog, turns>>

\* broadcast_global has returned: await client.post(webhook_url, ..., timeout=5.0)
NotifierPost(n) ==
    /\ n \in DOMAIN notifier
    /\ notifier[n].pc = "broadcast"
    /\ pub.pc = "idle"
    /\ notifier' = [notifier EXCEPT ![n].pc = "posting"]
    /\ UNCHANGED <<handler, adk, oplog, turns>>
    /\ UNCHANGED hubcore
    /\ UNCHANGED storevars

\* The POST ends: the status is printed, or the exception is caught and
\* printed; either way the task returns None.
NotifierReply(n, outcome) ==
    /\ n \in DOMAIN notifier
    /\ notifier[n].pc = "posting"
    /\ notifier' = [notifier EXCEPT ![n].pc = "done", ![n].reply = outcome]
    /\ UNCHANGED <<handler, adk, oplog, turns>>
    /\ UNCHANGED hubcore
    /\ UNCHANGED storevars

\* The agent's turns and the notifier tasks they queue, with sidebar clients
\* listening.
NotifierNext ==
    \/ \E cid \in Conversations : TurnBegin(cid)
    \/ TurnEnd
    \/ \E n \in 1..(2 * MaxTurns) : nextMsg <= MaxMsgs /\ NotifierBroadcast(n)
    \/ \E n \in 1..(2 * MaxTurns) : NotifierPost(n)
    \/ \E n \in 1..(2 * MaxTurns), outcome \in WebhookOutcomes : NotifierReply(n, outcome)
    \/ PutNext
    \/ PubFinish
    \/ \E a \in Adapters : pub.pc = "idle" /\ Connect(a, "global")
    \/ \E a \in Adapters : pub.pc = "idle" /\ Forward(a)

NotifierSpec == HubInit /\ [][NotifierNext]_vars

\* The steps of the stream adapters with the registration and the first yield
\* apart and with the keepalive timeout, between broadcast calls.
StreamStep ==
    \/ \E a \in Adapters, t \in Topics : pub.pc = "idle" /\ Register(a, t)
    \/ \E a \in Adapters : pub.pc = "idle" /\ Acknowledge(a)
    \/ \E a \in Adapters : pub.pc = "idle" /\ Timeout(a)
    \/ \E a \in Adapters : pub.pc = "idle" /\ Forward(a)
    \/ \E a \in Adapters : pub.pc = "idle" /\ ClientDisconnect(a)
    \/ \E a \in Adapters : pub.pc = "idle" /\ ServerCancel(a)
    \/ \E a \in Adapters : pub.pc = "idle" /\ SerializationError(a)

StreamNext ==
    \/ StreamStep
    \/ \E cid \in Conversations : BroadcastToClients(cid)
    \/ BroadcastGlobal
    \/ PutNext
    \/ PubFinish

\* The event loop runs a timer that is due and a coroutine that is ready: a
\* timeout that stays due fires, a broadcast call that has begun goes on.
StreamSpec ==
    /\ HubInit
    /\ [][StreamNext]_vars
    /\ \A a \in Adapters : WF_vars(pub.pc = "idle" /\ Timeout(a))
    /\ WF_vars(PutNext)
    /\ WF_vars(PubFinish)

\* The streams with the race of an arriving item and the keepalive timer. The
\* event loop resumes a generator that has registered or whose queue holds an
\* item (its client reads the stream), and goes on with a broadcast call that
\* has begun.
WakeupNext ==
    \/ \E a \in Adapters, t \in Topics : pub.pc = "idle" /\ Register(a, t)
    \/ \E a \in Adapters : pub.pc = "idle" /\ Acknowledge(a)
    \/ \E a \in Adapters : pub.pc = "idle" /\ Timeout(a)
    \/ \E a \in Adapters : pub.pc = "idle" /\ Forward(a)
    \/ \E a \in Adapters : pub.pc = "idle" /\ ClientDisconnect(a)
    \/ \E cid \in Conversations : BroadcastToClients(cid)
    \/ BroadcastGlobal
    \/ PutNext
    \/ PutNextRacing
    \/ PubFinish

WakeupSpec ==
    /\ HubInit
    /\ [][WakeupNext]_vars
    /\ \A a \in 1..MaxStreams : WF_vars(pub.pc = "idle" /\ Acknowledge(a))
    /\ \A a \in 1..MaxStreams : WF_vars(pub.pc = "idle" /\ Forward(a))
    /\ WF_vars(PutNext)
    /\ WF_vars(PubFinish)

\* ------------------------------------------------------ claims: the store

\* The handles of the upserts scheduled for id (one per save or create).
SavesOn(id) == {t \in DOMAIN task : task[t].kind = "upsert" /\ task[t].data.session_id = id}

Latest(S) == CHOOSE t \in S : \A u \in S : u <= t

\* What the last save or create of id wrote, None before the first.
LastSave(id) == IF SavesOn(id) = {} THEN None ELSE task[Latest(SavesOn(id))].data

\* The durable rows of id.
Rows(id) == {r \in sessions : r.id = id}

\* The row an upsert of data leaves.
RowOf(data) ==
    [id |-> data.session_id, events |-> JsonDumps(data.events), state |-> JsonDumps(data.state)]

\* This step is a get_session(id) call that hit the cache and returned.
CacheHitReturn(id) == returned'.id = id /\ getter' = getter

\* C1 (read-your-writes): a get(id) issued after a save or create of id has
\* returned, with no other save or create of id in between, returns exactly
\* the events and state of that save, whatever the state of its durable write.
C1_ReadYourWrites ==
    [][\A id \in SessionIds :
          (CacheHitReturn(id) /\ LastSave(id) # None) => returned'.value = LastSave(id)]_vars

\* C2: in every reachable state the cached copy of a session holds the events
\* the last save of that id wrote, never older ones.
C2_CacheNeverOlder ==
    \A id \in SessionIds :
        LastSave(id) # None =>
            /\ id \in DOMAIN memory_cache
            /\ memory_cache[id].events = LastSave(id).events

\* Two saves of id were issued, with different event lists, and both
\* background writes have finished: each has committed its upsert.
TwoSavesFinished(id) ==
    /\ Cardinality(SavesOn(id)) = 2
    /\ \A t \in SavesOn(id) : task[t].status = "completed"
    /\ \E t, u \in SavesOn(id) : task[t].data.events # task[u].data.events

\* This step is a save or create of id (it created a task for id).
SaveStep(id) == Len(task') = Len(task) + 1 /\ task'[Len(task')].data.session_id = id

\* What a get_session(id) issued in cache c returns from the cache.
CacheRead(c, id) == IF id \in DOMAIN c THEN c[id] ELSE None

\* C3 as the spec states it: once both background writes of two
\* back-to-back saves have finished, the durable row holds the second payload
\* (and a get right after the second save reads the second payload).
C3_SecondPayloadDurable ==
    \A id \in SessionIds :
        TwoSavesFinished(id) => Rows(id) = {RowOf(LastSave(id))}

\* C3, amended: the durable row of id always holds the payload of the upsert
\* that committed last for id (the row is the one found at start while none has
\* committed), whichever save was issued last; and right after every save the
\* cache holds that save's payload.
C3_LastCommitDurable ==
    [][\A id \in SessionIds :
          /\ landed'[id] # 0 => Rows(id)' = {RowOf(task'[landed'[id]].data)}
          /\ SaveStep(id) => CacheRead(memory_cache', id) = task'[Len(task')].data]_vars

\* Two saves with different events have both committed, the second first:
\* the row holds the first payload.
C3_Witness ==
    \E id \in SessionIds :
        /\ TwoSavesFinished(id)
        /\ landed[id] # Latest(SavesOn(id))
        /\ Rows(id) # {RowOf(LastSave(id))}

\* The upserts of id that have committed.
Committed(id) == {t \in SavesOn(id) : task[t].status = "completed"}

\* C12 (upsert idempotence): the table never holds two rows for one id, and
\* when the same (id, events, state) upsert has been applied twice, and no
\* other upsert of that id, the one row of id holds those events and state.
C12_UpsertIdempotent ==
    \A id \in SessionIds :
        /\ Cardinality(Rows(id)) <= 1
        /\ \A t, u \in Committed(id) :
              (t # u /\ \A v \in Committed(id) : task[v].data = task[t].data) =>
                  Rows(id) = {RowOf(task[t].data)}

\* The same upsert, of events [1, 2], has committed twice for one id.
C12_Witness ==
    \E id \in SessionIds :
        /\ Cardinality(Committed(id)) = 2
        /\ task[1].data = task[2].data
        /\ task[1].data.events = <<1, 2>>
        /\ Rows(id) = {RowOf(task[1].data)}

\* This step is the failure of background write t.
Fails(t) == task[t].status # "failed" /\ task'[t].status = "failed"

\* C13 (a failed durable write is swallowed): the step in which a background
\* write fails schedules no new write, changes no registry, leaves the cache
\* and the table as they were and returns nothing to any caller; a failed
\* write is never taken up again; and a get of an id that is cached returns
\* the cached record whatever became of the writes.
C13_FailureSwallowed ==
    [][/\ \A t \in DOMAIN task :
             /\ Fails(t) =>
                   /\ Len(task') = Len(task)
                   /\ \A u \in DOMAIN task \ {t} : task'[u] = task[u]
                   /\ UNCHANGED <<memory_cache, write_tasks, write_queue, pending_writes, sessions, getter>>
                   /\ returned' = NoReturn
             /\ task[t].status = "failed" => task'[t] = task[t]
       /\ \A id \in SessionIds :
             (CacheHitReturn(id) /\ id \in DOMAIN memory_cache) =>
                 returned'.value = memory_cache[id]]_vars

\* The write of the only save of id has failed, nothing reached the table, and
\* a get of id has just returned the saved record from the cache.
C13_Witness ==
    \E id \in SessionIds :
        /\ Len(task) = 1 /\ task[1].status = "failed"
        /\ Rows(id) = {}
        /\ returned = Return(id, task[1].data)

\* The state a caller of create_session asked for: an absent one is empty.
GivenState(arg) == IF arg.some THEN arg.map ELSE {}

\* id was created as a new session (it had no durable row and no earlier
\* write) and the durable insert of the create has not completed.
CreatedNotYetDurable(id) ==
    /\ Cardinality(SavesOn(id)) = 1
    /\ LastSave(id).events = <<>>
    /\ Committed(id) = {}
    /\ Rows(id) = {}

\* C14: create(id, state) caches a record with no events and the given state
\* ({} for an absent one), schedules exactly one durable insert, which has not
\* started when create returns, and writes nothing itself; a get(id) issued
\* before any durable write has completed returns that record.
C14_CreateThenGet ==
    [][\A id \in SessionIds :
          /\ \A arg \in StateArgs :
                CreateSession(id, arg) =>
                    /\ CacheRead(memory_cache', id) = SessionData(id, <<>>, GivenState(arg))
                    /\ Len(task') = Len(task) + 1
                    /\ \A t \in DOMAIN task : task'[t] = task[t]
                    /\ task'[Len(task')] =
                          [svc |-> "custom", kind |-> "upsert", status |-> "scheduled",
                           data |-> SessionData(id, <<>>, GivenState(arg))]
                    /\ sessions' = sessions
          /\ (CacheHitReturn(id) /\ CreatedNotYetDurable(id)) =>
                returned'.value = SessionData(id, <<>>, LastSave(id).state)]_vars

\* A session was created with a state; its insert is running and nothing is
\* durable yet; a get has just returned the record with no events and that state.
C14_Witness ==
    \E id \in SessionIds :
        /\ CreatedNotYetDurable(id)
        /\ task[1].status = "running"
        /\ returned = Return(id, SessionData(id, <<>>, {<<"is_read", TRUE>>}))

\* This step is the return of a get_session call that had gone to the table.
MissReturn(g) == getter[g].pc \in {"reading", "fetched"} /\ getter'[g].pc = "idle"

\* The session record that carries the events and state of a durable row.
RecordOfRow(id, row) == SessionData(id, JsonLoads(row.events), JsonLoads(row.state))

\* C15: a get that hits the cache returns the cached record, starts no durable
\* read and changes neither cache nor table; a get that missed and found a row
\* caches and returns a session record with that row's events and state; one
\* that found no row, or whose read failed, returns None and leaves the cache
\* as it was.
C15_GetContract ==
    [][/\ \A id \in SessionIds :
             (CacheHitReturn(id) /\ id \in DOMAIN memory_cache) =>
                 /\ returned'.value = memory_cache[id]
                 /\ UNCHANGED <<memory_cache, sessions, getter>>
       /\ \A g \in Getters :
             MissReturn(g) =>
                 /\ sessions' = sessions
                 /\ IF getter[g].pc = "fetched" /\ getter[g].row # None
                    THEN /\ returned'.value = RecordOfRow(getter[g].id, getter[g].row)
                         /\ CacheRead(memory_cache', getter[g].id) = returned'.value
                    ELSE /\ returned'.value = None
                         /\ memory_cache' = memory_cache]_vars

\* s is a prefix of t.
IsPrefix(s, t) == Len(s) <= Len(t) /\ SubSeq(t, 1, Len(s)) = s

\* This step is the save at the end of a streamed turn on id.
TurnSave(id) == SaveStep(id) /\ task'[Len(task')].data.events # <<>>

\* C20 (events are append-only): a save at the end of a turn on an id whose
\* record is cached leaves a record whose events begin with the events held
\* before, and which still has every entry of the state held before.
C20_EventsAppendOnly ==
    [][\A id \in SessionIds :
          (TurnSave(id) /\ id \in DOMAIN memory_cache /\ memory_cache[id].kind = "session") =>
              /\ IsPrefix(memory_cache[id].events, memory_cache'[id].events)
              /\ memory_cache[id].state \subseteq memory_cache'[id].state]_vars

\* ------------------------------------------------- claims: the registries

\* The registry a service keeps its handles in.
Registry(svc) ==
    CASE svc = "custom" -> write_tasks
      [] svc = "fast" -> write_queue
      [] svc = "wrapper" -> pending_writes

\* The operations of a service that were scheduled and are not yet done.
InFlight(svc) == {t \in DOMAIN task : task[t].svc = svc /\ ~Done(t)}

Handles(reg) == {reg[i] : i \in 1..Len(reg)}

\* This step is one of the four schedule calls (save, update_session_events,
\* update_session_state, update_session) of service svc.
ScheduleCall(svc) ==
    /\ Len(task') = Len(task) + 1
    /\ task'[Len(task')].svc = svc
    /\ task'[Len(task')].kind # "delete"

\* The statuses a task can go to from each status.
After(status) ==
    CASE status = "scheduled" -> {"running", "failed"}
      [] status = "running" -> {"completed", "failed"}
      [] OTHER -> {}

\* C30 (no cancellation): no step removes a task or changes what it writes,
\* and a task's status only moves scheduled -> running -> completed, or to
\* failed; a schedule call leaves every earlier task as it is and can be made
\* whatever the earlier tasks' statuses; a scheduled task can start and a
\* running one can end whatever the other tasks do; a handle that was done
\* is out of its service's registry after that service's next schedule call;
\* and under a fair event loop every task ends completed or failed.
C30_NoCancellation ==
    /\ [][/\ Len(task') >= Len(task)
          /\ \A t \in DOMAIN task :
                \/ task'[t] = task[t]
                \/ task'[t] = [task[t] EXCEPT !.status = task'[t].status] /\
                   task'[t].status \in After(task[t].status)
          /\ Len(task') > Len(task) =>
                /\ Len(task') = Len(task) + 1
                /\ task'[Len(task')].status = "scheduled"
                /\ \A t \in DOMAIN task : task'[t] = task[t]
          /\ \A svc \in {"custom", "fast", "wrapper"} :
                ScheduleCall(svc) =>
                    \A t \in Handles(Registry(svc)) :
                        Done(t) => t \notin Handles(Registry(svc))']_vars
    /\ [](Len(task) < MaxTasks =>
            /\ ENABLED Save
            /\ \A id \in SessionIds : ENABLED UpdateSession(id) /\ ENABLED UpdateSessionState(id))
    /\ [](\A t \in DOMAIN task :
            /\ task[t].status = "scheduled" => ENABLED WriteBegin(t)
            /\ task[t].status = "running" => ENABLED (WriteCommit(t) \/ DelegateDone(t)))
    /\ \A t \in 1..MaxTasks : (t \in DOMAIN task) ~> (t \in DOMAIN task /\ Done(t))

\* A later write of a service has completed while an earlier one of the same
\* service has not started; both handles are still in the registry.
C30_Witness ==
    /\ Len(task) = 2
    /\ task[1].svc = task[2].svc
    /\ task[1].status = "scheduled"
    /\ task[2].status = "completed"
    /\ Registry(task[1].svc) = <<1, 2>>

\* C10 (bounded registry): right after every schedule call the registry of
\* that service holds only handles of operations not yet completed, the new
\* one among them, so its length is at most the number of in-flight writes.
C10_BoundedRegistry ==
    [][\A svc \in {"custom", "fast", "wrapper"} :
          ScheduleCall(svc) =>
              /\ Handles(Registry(svc))' \subseteq InFlight(svc)'
              /\ Len(task') \in Handles(Registry(svc))'
              /\ Len(Registry(svc))' <= Cardinality(InFlight(svc)')]_vars

\* More writes were scheduled on a service than its registry holds: a
\* schedule call dropped the handle of a completed write.
C10_Witness ==
    \E svc \in {"custom", "fast", "wrapper"} :
        /\ Len(task) >= 2
        /\ \A t \in DOMAIN task : task[t].svc = svc /\ task[t].kind # "delete"
        /\ Done(1)
        /\ 1 \notin Handles(Registry(svc))
        /\ Registry(svc) = <<Len(task)>>

\* C11 (no scheduled write is dropped): in every step, every operation of a
\* service that is scheduled and not yet done is in that service's registry,
\* and a handle that leaves a registry belongs to an operation that is done.
C11_NoWriteDropped ==
    [][\A svc \in {"custom", "fast", "wrapper"} :
          /\ InFlight(svc)' \subseteq Handles(Registry(svc))'
          /\ \A h \in Handles(Registry(svc)) \ Handles(Registry(svc))' :
                task'[h].status \in {"completed", "failed"}]_vars

\* Two writes for the same session id are in flight at once on one service,
\* the older one already running, and the registry holds both.
C11_Witness ==
    \E svc \in {"custom", "fast", "wrapper"} :
        /\ Registry(svc) = <<1, 2>>
        /\ task[1].status = "running" /\ task[2].status = "scheduled"
        /\ task[1].data.session_id = task[2].data.session_id

\* The upserts of id that are scheduled or running.
Pending(id) == {t \in SavesOn(id) : task[t].status \in {"scheduled", "running"}}

\* C23 (the last upsert to land wins, whole): a durable row of id written by
\* this process is at all times the whole payload (events and state) of one
\* upsert that committed for id, and once no upsert of id is in flight it is
\* the payload of the one that committed last, whichever was issued last.
C23_LastLandedWins ==
    \A id \in SessionIds :
        Committed(id) # {} =>
            /\ Cardinality(Rows(id)) = 1
            /\ \E t \in Committed(id) : Rows(id) = {RowOf(task[t].data)}
            /\ Pending(id) = {} =>
                  /\ landed[id] \in Committed(id)
                  /\ Rows(id) = {RowOf(task[landed[id]].data)}

\* Two saves of one id, differing in events and in state, were in flight
\* together; the one issued last committed first, and with both done the row
\* is the payload of the one issued first.
C23_Witness ==
    \E id \in SessionIds :
        /\ SavesOn(id) = {1, 2} /\ Committed(id) = {1, 2}
        /\ task[1].data.events # task[2].data.events
        /\ task[1].data.state # task[2].data.state
        /\ landed[id] = 1
        /\ Rows(id) = {RowOf(task[1].data)}

\* The delete tasks scheduled for id.
DeletesOn(id) == {t \in DOMAIN task : task[t].kind = "delete" /\ task[t].data.session_id = id}

\* delete(id) has returned and id was not saved or created again since.
Deleted(id) ==
    /\ DeletesOn(id) # {}
    /\ \A t \in SavesOn(id) : t < Latest(DeletesOn(id))

\* This step is a delete_session(id) call.
DeleteStep(id) ==
    /\ Len(task') = Len(task) + 1
    /\ task'[Len(task')].kind = "delete"
    /\ task'[Len(task')].data.session_id = id

\* C22: a delete(id) leaves no cached record of id and a handle of its durable
\* delete in the registry; until id is saved again no get(id) is answered from
\* memory; and the handle of a delete stays in the registry until the delete
\* is done.
C22_DeleteEvicts ==
    [][\A id \in SessionIds :
          /\ DeleteStep(id) =>
                /\ id \notin DOMAIN memory_cache'
                /\ Len(task') \in Handles(pending_writes')
          /\ Deleted(id) => ~CacheHitReturn(id)
          /\ \A t \in DeletesOn(id)' :
                task'[t].status \notin {"completed", "failed"} => t \in Handles(pending_writes')]_vars

\* --------------------------------------------------------- claims: the hub

\* Every item put into an adapter's queue so far, in order.
Received(a) == forwarded[a] \o queue[a]

\* How many times item m is in a list.
Count(m, list) == Cardinality({i \in 1..Len(list) : list[i] = m})

\* The delivery pass of broadcast m is still running.
InPass(m) == pub.pc = "loop" /\ pub.msg = m

\* C4 (no replay): broadcast m is in the queue of every adapter that was
\* registered under m's topic when m was published, once, and in the queue of
\* no adapter that registered afterwards.
C4_NoReplay ==
    \A m \in DOMAIN subs, a \in Adapters :
        adapter[a].state = "STREAMING" =>
            /\ a \notin subs[m].queues => Count(m, Received(a)) = 0
            /\ (a \in subs[m].queues /\ ~InPass(m)) => Count(m, Received(a)) = 1

\* Broadcast 1 reached the adapter registered at the time and not the one
\* that registered on the same topic afterwards; broadcast 2 reached both.
C4_Witness ==
    \E a, b \in Adapters :
        /\ adapter[a].state = "STREAMING" /\ adapter[b].state = "STREAMING"
        /\ adapter[a].topic = adapter[b].topic
        /\ Len(subs) = 2 /\ subs[1].queues = {a} /\ subs[2].queues = {a, b}
        /\ Received(a) = <<1, 2>> /\ Received(b) = <<2>>

\* This step is a broadcast call on a topic without subscribers.
DroppedBroadcast == nextMsg' = nextMsg + 1 /\ subs'[nextMsg].queues = {}

\* C5 (no buffering): a broadcast to a topic (a conversation or the global
\* one) with no subscriber changes nothing in the hub, and no adapter, also
\* none that joins later, ever has it in its queue.
C5_NoBuffering ==
    [][/\ DroppedBroadcast =>
             UNCHANGED <<listeners, global_listeners, queue, adapter, forwarded, broken, pub>>
       /\ \A m \in DOMAIN subs', a \in Adapters :
             subs'[m].queues = {} => Count(m, Received(a)') = 0]_vars

\* Broadcast 1 found its topic empty; an adapter then joined that topic and
\* received broadcast 2 alone.
C5_Witness ==
    \E a \in Adapters :
        /\ Len(subs) = 2 /\ subs[1].queues = {} /\ subs[2].queues = {a}
        /\ subs[1].topic = subs[2].topic
        /\ adapter[a].state = "STREAMING"
        /\ Received(a) = <<2>>

\* This step ends adapter a's stream (its finally block ran).
Leaves(a) == adapter[a].state = "STREAMING" /\ adapter'[a].state = "CLOSED"

\* C6 (idempotent unsubscribe): when an adapter's queue is already gone from
\* its topic's list (a broadcast pruned it as dead), the unsubscribe of its
\* finally block still completes and changes no topic's subscriber list.
C6_IdempotentUnsubscribe ==
    [][\A a \in Adapters :
          (Leaves(a) /\ ~In(a, ListOf(adapter[a].topic))) =>
              /\ adapter'[a].unsub = "absent"
              /\ UNCHANGED <<listeners, global_listeners>>]_vars

\* An adapter whose queue had been pruned has closed, and another adapter is
\* still registered under the same topic.
C6_Witness ==
    \E a, b \in Adapters :
        /\ adapter[a].state = "CLOSED" /\ adapter[a].unsub = "absent"
        /\ adapter[b].state = "STREAMING" /\ adapter[b].topic = adapter[a].topic
        /\ In(b, ListOf(adapter[b].topic))

\* C7 (guaranteed cleanup): every way out of the streaming loop (client
\* disconnect, server cancellation, serialization error) takes exactly the
\* leaving adapter's queue out of its topic's list, so the topic's subscriber
\* count drops by exactly one, the other topics keep their lists, and no
\* CLOSED adapter has its queue registered anywhere.
C7_GuaranteedCleanup ==
    [][/\ \A a \in Adapters :
             Leaves(a) =>
                 /\ In(a, ListOf(adapter[a].topic))
                 /\ ListOf(adapter[a].topic)' = Remove(ListOf(adapter[a].topic), a)
                 /\ Len(ListOf(adapter[a].topic))' = Len(ListOf(adapter[a].topic)) - 1
                 /\ \A t \in Topics \ {adapter[a].topic} : ListOf(t)' = ListOf(t)
       /\ \A a \in Adapters, t \in Topics :
             adapter'[a].state = "CLOSED" => ~In(a, ListOf(t)')]_vars

\* One adapter has left while another one stays registered on the same topic.
C7_Witness ==
    \E a, b \in Adapters :
        /\ adapter[a].state = "CLOSED" /\ adapter[a].unsub = "removed"
        /\ adapter[b].state = "STREAMING" /\ adapter[b].topic = adapter[a].topic
        /\ ListOf(adapter[a].topic) = <<b>>

\* C8: the per-conversation registry holds no entry with an empty list.
C8_NoEmptyTopic ==
    \A cid \in DOMAIN listeners : listeners[cid] # <<>>

\* The delivery pass has gone through the list.
PassOver == pub.pc = "loop" /\ pub.i >= Len(ListOf(pub.topic))

Without(list, dead) == SelectSeq(list, LAMBDA q : ~In(q, dead))

\* C24 (a rejecting queue): a turn of the delivery loop changes no subscriber
\* list, and when the queue rejects the item it is recorded and the pass goes
\* on; when the pass ends every queue registered at the call that did not
\* reject has the item once and every one that rejected has been recorded;
\* the call then takes exactly the recorded queues out of its topic's list,
\* leaves the other topics' lists alone and raises nothing.
C24_RejectingQueue ==
    [][/\ (pub.pc = "loop" /\ pub'.pc = "loop") =>
             /\ UNCHANGED <<listeners, global_listeners>>
             /\ pub'.i = pub.i + 1
             /\ LET q == ListOf(pub.topic)[pub.i + 1]
                IN  IF q \in broken
                    THEN pub'.dead = Append(pub.dead, q) /\ queue' = queue
                    ELSE pub'.dead = pub.dead
       /\ (pub.pc = "loop" /\ pub'.pc = "idle") =>
             /\ \A a \in subs[pub.msg].queues :
                   IF a \in broken
                   THEN In(a, pub.dead) /\ Count(pub.msg, Received(a)) = 0
                   ELSE ~In(a, pub.dead) /\ Count(pub.msg, Received(a)) = 1
             /\ \E t \in Topics :
                   /\ t = pub.topic
                   /\ ListOf(t)' = Without(ListOf(t), pub.dead)
                   /\ \A u \in Topics \ {t} : ListOf(u)' = ListOf(u)
             /\ ~pub_raised']_vars

\* The first of two queues under a topic rejected broadcast 1: the second got
\* it, and after the call the second alone is registered.
C24_Witness ==
    \E t \in Topics :
        /\ Len(subs) = 1 /\ subs[1].topic = t /\ subs[1].queues = {1, 2}
        /\ pub.pc = "idle"
        /\ 1 \in broken
        /\ ListOf(t) = <<2>>
        /\ Received(1) = <<>> /\ Received(2) = <<1>>

\* The data chunks among the chunks an adapter has sent, in order.
DataSent(a) == SelectSeq(sent[a], LAMBDA c : c.kind = "data")

\* The queue is registered and its adapter has not left.
Attached(a) == adapter[a].state \in {"CONNECTING", "STREAMING"}

\* C25 (no lost wake-up): once a broadcast's pass is over its item is, once,
\* among the items received by every adapter that was registered at the call
\* and has stayed connected; the items an adapter has received are in the
\* order they were published; the data chunks it has sent are the items it
\* took from its queue, each once and in that order; a step that sends a
\* keepalive, and any other step of an adapter that stays connected, removes
\* nothing from what it has received; and the queue of an adapter does not
\* stay non-empty for ever: its items are forwarded unless the adapter leaves.
C25_NoLostWakeup ==
    /\ [](\A a \in Adapters :
            Attached(a) =>
                /\ \A m \in DOMAIN subs :
                      (a \in subs[m].queues /\ ~InPass(m)) => Count(m, Received(a)) = 1
                /\ \A i, j \in 1..Len(Received(a)) : i < j => Received(a)[i] < Received(a)[j]
                /\ DataSent(a) = [i \in 1..Len(forwarded[a]) |-> DataChunk(forwarded[a][i])])
    /\ [][\A a \in Adapters :
            (Attached(a) /\ adapter'[a].state = "STREAMING") =>
                /\ IsPrefix(Received(a), Received(a)')
                /\ IsPrefix(forwarded[a], forwarded'[a])
                /\ (sent'[a] = Append(sent[a], Keepalive)) => forwarded'[a] = forwarded[a]]_vars
    /\ \A a \in 1..MaxStreams :
          (queue[a] # <<>>) ~> (queue[a] = <<>> \/ adapter[a].state = "CLOSED")

\* An adapter that began its wait with an empty queue has sent a keepalive
\* and then broadcasts 1 and 2, in that order: what a race of broadcast 1
\* with the timer leaves.
C25_Witness ==
    \E a \in Adapters :
        /\ adapter[a].state = "STREAMING"
        /\ Len(subs) = 2 /\ pre_ack[a] = <<>>
        /\ sent[a] = <<Connected(adapter[a].topic), Keepalive, DataChunk(1), DataChunk(2)>>
        /\ queue[a] = <<>>

\* This step registers adapter a.
Joins(a) == adapter[a].state = "NEW" /\ adapter'[a].state # "NEW"

\* C27 (topic isolation): a queue is registered under its adapter's topic and
\* under no other; every item an adapter has received was published on its
\* topic; a step of a delivery pass changes only queues registered under the
\* topic of the pass; and a subscribe or an unsubscribe leaves the list of
\* every other topic as it was.
C27_TopicIsolation ==
    /\ [](\A a \in Adapters :
            /\ \A t \in IsolationTopics : In(a, ListOf(t)) => Attached(a) /\ adapter[a].topic = t
            /\ \A i \in 1..Len(Received(a)) : subs[Received(a)[i]].topic = adapter[a].topic)
    /\ [][\A a \in Adapters :
            /\ (pub.pc = "loop" /\ queue'[a] # queue[a]) =>
                  /\ adapter[a].topic = pub.topic
                  /\ In(a, ListOf(pub.topic))
                  /\ \A b \in Adapters \ {a} : queue'[b] = queue[b]
            /\ Joins(a) =>
                  \A t \in IsolationTopics \ {adapter'[a].topic} : ListOf(t)' = ListOf(t)
            /\ Leaves(a) =>
                  \A t \in IsolationTopics \ {adapter[a].topic} : ListOf(t)' = ListOf(t)]_vars

\* One client listens on c1 and one on c2; broadcast 1 went to c1 and
\* broadcast 2 to c2, and each client has its conversation's item alone.
C27_Witness ==
    \E a, b \in Adapters :
        /\ adapter[a].state = "STREAMING" /\ adapter[a].topic = "c1"
        /\ adapter[b].state = "STREAMING" /\ adapter[b].topic = "c2"
        /\ Len(subs) = 2 /\ subs[1].topic = "c1" /\ subs[2].topic = "c2"
        /\ Received(a) = <<1>> /\ Received(b) = <<2>>

\* The notifier tasks whose POST failed.
Failed == {n \in DOMAIN notifier : notifier[n].pc = "done" /\ notifier[n].reply # "200"}

\* C29 (a notifier failure is swallowed): a step of a notifier task, the end
\* of its POST included, changes no session, no turn and no request; a task
\* that has begun its POST has made its broadcast_global call before, with the
\* event type its is_new flag chooses; a task ends as done whatever the
\* webhook answered; and once the call has returned, every sidebar queue
\* registered when a failed task made it holds, or has passed on, the task's
\* item.
C29_NotifierSwallowed ==
    /\ [][(\E n \in DOMAIN notifier : notifier'[n] # notifier[n]) =>
             UNCHANGED <<adk, turns, handler, oplog, storevars>>]_vars
    /\ [][\A n \in DOMAIN notifier :
             (notifier[n].pc = "posting" /\ notifier'[n] # notifier[n]) =>
                 /\ notifier'[n].pc = "done"
                 /\ notifier'[n].reply \in WebhookOutcomes
                 /\ UNCHANGED hubcore]_vars
    /\ [](\A n \in DOMAIN notifier :
            notifier[n].pc \in {"posting", "done"} =>
                /\ notifier[n].msg \in DOMAIN subs
                /\ subs[notifier[n].msg].topic = "global"
                /\ subs[notifier[n].msg].queues # {} =>
                      subs[notifier[n].msg].published =
                          [type |-> NotifierEventType(notifier[n]),
                           data |-> NotifierData(notifier[n])])
    /\ [](\A n \in Failed : \A a \in subs[notifier[n].msg].queues :
            \E i \in 1..Len(Received(a)) : Received(a)[i] = notifier[n].msg)

\* The webhook was unreachable for the notification of a bot answer; the turn
\* has its answer and a sidebar client has been sent the notification.
C29_Witness ==
    \E n \in Failed :
        /\ notifier[n].reply = "error"
        /\ notifier[n].sender_type = "bot"
        /\ turns[Len(turns)].reply = "answer"
        /\ \E a \in subs[notifier[n].msg].queues :
              \E i \in 1..Len(forwarded[a]) : forwarded[a][i] = notifier[n].msg

\* The broadcasts called while adapter a's queue was registered.
PublishedTo(a) == {m \in DOMAIN subs : a \in subs[m].queues}

\* C28 (the publisher never waits): while a broadcast call is in its pass its
\* next step can be taken whatever the queues hold; a turn of the loop appends
\* the item to the next queue, however long that queue is, and changes no
\* other queue and no adapter; between calls the queue of an adapter that has
\* taken nothing holds one item per broadcast on its topic since it
\* registered; and every call returns.
C28_PublisherNeverWaits ==
    /\ [](pub.pc = "loop" =>
            IF pub.i < Len(ListOf(pub.topic)) THEN ENABLED PutNext ELSE ENABLED PubFinish)
    /\ [](\A a \in Adapters :
            (adapter[a].state = "STREAMING" /\ pub.pc = "idle" /\ forwarded[a] = <<>>) =>
                Len(queue[a]) = Cardinality(PublishedTo(a)))
    /\ [][(pub.pc = "loop" /\ pub'.pc = "loop") =>
             /\ pub'.i = pub.i + 1
             /\ LET q == ListOf(pub.topic)[pub.i + 1]
                IN  queue' = [queue EXCEPT ![q] = Append(queue[q], pub.msg)]
             /\ UNCHANGED <<adapter, forwarded, sent>>]_vars
    /\ (pub.pc = "loop") ~> (pub.pc = "idle")

\* Two clients listen on one topic; one has taken nothing and its queue
\* holds both broadcasts, the other has been sent both.
C28_Witness ==
    \E a, b \in Adapters :
        /\ adapter[a].state = "STREAMING" /\ adapter[b].state = "STREAMING"
        /\ adapter[a].topic = adapter[b].topic
        /\ pub.pc = "idle" /\ Len(subs) = 2
        /\ forwarded[a] = <<>> /\ queue[a] = <<1, 2>>
        /\ forwarded[b] = <<1, 2>> /\ queue[b] = <<>>

\* The adapter is in its loop, has sent nothing but the acknowledgment, and
\* its queue is empty.
Waiting(a) ==
    /\ adapter[a].state = "STREAMING"
    /\ queue[a] = <<>>
    /\ sent[a] = <<Connected(adapter[a].topic)>>

\* C16 (keepalive): a timeout with an empty queue appends one keepalive to
\* what the client gets and changes nothing else, so the adapter stays
\* STREAMING and registered; while the queue is empty the only chunk a
\* streaming adapter sends is a keepalive; and an adapter that waits with an
\* empty queue does not wait for ever: an item arrives, the stream ends, or a
\* keepalive is sent.
C16_Keepalive ==
    /\ [][\A a \in Adapters :
            /\ Timeout(a) =>
                  /\ sent'[a] = Append(sent[a], Keepalive)
                  /\ adapter'[a].state = "STREAMING"
                  /\ In(a, ListOf(adapter[a].topic)')
                  /\ UNCHANGED <<listeners, global_listeners, queue, adapter, forwarded>>
            /\ (adapter[a].state = "STREAMING" /\ queue[a] = <<>> /\ sent'[a] # sent[a]) =>
                  \/ sent'[a] = Append(sent[a], Keepalive)
                  \/ adapter'[a].state = "CLOSED"]_vars
    /\ \A a \in Adapters : Waiting(a) ~> ~Waiting(a)

\* An adapter sent a keepalive after the acknowledgment, stayed in its loop
\* and then forwarded broadcast 1.
C16_Witness ==
    \E a \in Adapters :
        /\ adapter[a].state = "STREAMING"
        /\ In(a, ListOf(adapter[a].topic))
        /\ Len(subs) >= 1
        /\ sent[a] = <<Connected(adapter[a].topic), Keepalive, DataChunk(1)>>

\* C17 (acknowledgment first): an adapter is registered under its topic from
\* the moment it is CONNECTING and has sent nothing then; the first chunk it
\* sends is the "connected" acknowledgment, sent while CONNECTING and once;
\* the acknowledgment leaves the queue as it is, and every item taken from the
\* queue afterwards is forwarded, so an item published between registration
\* and acknowledgment comes after the acknowledgment.
C17_ConnectedFirst ==
    [][\A a \in Adapters :
          /\ adapter'[a].state = "CONNECTING" =>
                /\ \E t \in Topics : t = adapter'[a].topic /\ In(a, ListOf(t)')
                /\ sent'[a] = <<>>
          /\ (sent[a] = <<>> /\ sent'[a] # <<>>) =>
                /\ adapter[a].state = "CONNECTING"
                /\ In(a, ListOf(adapter[a].topic))
                /\ sent'[a] = <<Connected(adapter[a].topic)>>
                /\ queue'[a] = queue[a]
          /\ (sent[a] # <<>> /\ sent'[a] # <<>>) =>
                /\ sent'[a][1] = sent[a][1]
                /\ \A i \in 2..Len(sent'[a]) : sent'[a][i].kind # "connected"
          /\ (adapter'[a].state = "STREAMING" /\ sent[a] # <<>> /\ queue[a] # <<>>
                /\ queue'[a] = Tail(queue[a])) =>
                sent'[a] = Append(sent[a], DataChunk(Head(queue[a])))]_vars

\* Broadcast 1 was put into the queue of an adapter that was registered and
\* had not yet acknowledged; the client got the acknowledgment, then the item.
C17_Witness ==
    \E a \in Adapters :
        /\ adapter[a].state = "STREAMING"
        /\ Len(subs) >= 1
        /\ pre_ack[a] = <<1>>
        /\ sent[a] = <<Connected(adapter[a].topic), DataChunk(1)>>

\* C18 (global delivery, exactly once): the item of a broadcast_global call
\* carries the type and every field the caller published; once the call's
\* pass is over the item is in the queue of every global subscriber registered
\* when it was called, once; and no queue ever holds the item twice.
C18_GlobalExactlyOnce ==
    \A m \in DOMAIN subs :
        subs[m].topic = "global" =>
            /\ subs[m].queues # {} =>
                  /\ subs[m].item.type = subs[m].published.type
                  /\ \A k \in DOMAIN subs[m].published.data :
                        subs[m].item[k] = subs[m].published.data[k]
            /\ \A a \in Adapters :
                  adapter[a].state = "STREAMING" =>
                      /\ Count(m, Received(a)) <= 1
                      /\ (a \in subs[m].queues /\ ~InPass(m)) => Count(m, Received(a)) = 1

\* Two sidebar listeners were registered when new_conversation was published
\* for c1: each has that one item, and it is all either has.
C18_Witness ==
    \E a, b \in Adapters :
        /\ a # b
        /\ adapter[a].state = "STREAMING" /\ adapter[b].state = "STREAMING"
        /\ Len(subs) = 1 /\ subs[1].topic = "global" /\ subs[1].queues = {a, b}
        /\ subs[1].item.type = "new_conversation"
        /\ subs[1].item.conversation_id = "c1"
        /\ Received(a) = <<1>> /\ Received(b) = <<1>>

\* C19: every request that returned success (a human-agent message, a
\* mark-as-read, a mark-as-unread, an AI toggle) had its event stored before
\* anything was published, and published at least one notification, which is
\* in the queue of every adapter registered under its topic at the time.
C19_StoreThenPublish ==
    \A k \in DOMAIN oplog :
        /\ oplog[k].msgs # <<>> => oplog[k].stored
        /\ oplog[k].status = "success" =>
              /\ oplog[k].stored
              /\ oplog[k].msgs # <<>>
              /\ \A i \in DOMAIN oplog[k].msgs, a \in Adapters :
                    (adapter[a].state = "STREAMING" /\ a \in subs[oplog[k].msgs[i]].queues) =>
                        Count(oplog[k].msgs[i], Received(a)) = 1

\* ------------------------------------------- claims: the agent and the inbox

\* The toggle-ai requests on cid that have returned success.
TogglesDone(cid) ==
    {k \in DOMAIN oplog : /\ oplog[k].op = "toggle_ai" /\ oplog[k].cid = cid
                          /\ oplog[k].status = "success"}

\* The last toggle-ai that succeeded on cid, if any, switched the AI off.
TakenOver(cid) ==
    /\ TogglesDone(cid) # {}
    /\ ~oplog[Latest(TogglesDone(cid))].enabled

\* This step is the successful return of a toggle-ai request.
ToggleSucceeds ==
    /\ handler.op = "toggle_ai"
    /\ handler.pc # "idle" /\ handler'.pc = "idle"
    /\ oplog'[Len(oplog')].status = "success"

Injections == {k \in DOMAIN oplog : oplog[k].op = "send_message"}

\* C26 (message injection): a send_message request that fails (unknown
\* conversation, or the append fails) ends with an error, appends no event and
\* publishes nothing; one that goes on appends exactly one event and publishes
\* nothing in that step; it publishes only after the append, first on the
\* conversation's topic, then on the global topic, and returns success after
\* both.
C26_InjectionOrder ==
    /\ [](\A k \in Injections :
            /\ oplog[k].status = "failed" => (~oplog[k].stored /\ oplog[k].msgs = <<>>)
            /\ oplog[k].msgs # <<>> => oplog[k].stored
            /\ Len(oplog[k].msgs) <= 2
            /\ Len(oplog[k].msgs) >= 1 => subs[oplog[k].msgs[1]].topic = oplog[k].cid
            /\ Len(oplog[k].msgs) = 2 =>
                  /\ subs[oplog[k].msgs[2]].topic = "global"
                  /\ oplog[k].msgs[1] < oplog[k].msgs[2]
            /\ oplog[k].status = "success" => Len(oplog[k].msgs) = 2)
    /\ [][(handler.op = "send_message" /\ handler.pc = "get_session" /\ handler'.pc # "get_session") =>
             /\ nextMsg' = nextMsg /\ UNCHANGED <<queue, listeners, global_listeners>>
             /\ IF oplog'[Len(oplog')].status = "failed"
                THEN adk' = adk /\ handler'.pc = "idle"
                ELSE /\ adk'[handler.cid].events = adk[handler.cid].events + 1
                     /\ adk'[handler.cid].state = adk[handler.cid].state]_vars

\* A human-agent message for c1 was appended and then published: the client
\* listening on c1 has the first broadcast, the sidebar listener the second,
\* and the request has returned success.
C26_Witness ==
    \E a, b \in Adapters :
        /\ oplog = <<[op |-> "send_message", cid |-> "c1", enabled |-> TRUE,
                      status |-> "success", stored |-> TRUE, msgs |-> <<1, 2>>]>>
        /\ adk["c1"].events = 1
        /\ adapter[a].topic = "c1" /\ Received(a) = <<1>>
        /\ adapter[b].topic = "global" /\ Received(b) = <<2>>
        /\ subs[1].item = NewMessage
        /\ subs[2].item.type = "conversation_update"

====
